---- MODULE Spec2Model ----
(***************************************************************************)
(* Model of src/config.rs of trojan-rs: the Opts aggregate, its one-time   *)
(* setup (backend resolution, placeholder address, durations, password     *)
(* digests), credential verification and the lazily evicting DNS cache.    *)
(*                                                                         *)
(* Option<T> is modelled as a sequence: <<>> is None and <<x>> is Some(x). *)
(* Strings that the code only compares (mode, domain names) are TLA+       *)
(* strings; strings whose content the code inspects (hostname, passwords,  *)
(* digests) are sequences.                                                 *)
(***************************************************************************)
EXTENDS Integers, Sequences, FiniteSets, TLC

(* ------------------------------ bounds --------------------------------- *)

\* Latest instant the modelled monotonic clock reaches.
MaxTime == 2
\* Largest ordinary dns-cache-time value drawn (seconds); CacheTimes adds one
\* value large enough to overflow Instant + Duration.
MaxCacheTime == 1
\* Scaled-down stand-in for the largest instant std::time::Instant can hold.
InstantMax == 4
\* Longest configured password list.
MaxPasswords == 2
\* Longest candidate list a DNS lookup returns.
MaxCandidates == 2
\* Most runs of setup on one Opts (where setup is invoked again).
MaxSetups == 2
\* Relay sessions sharing the Opts.
MaxSessions == 2

(* --------------------------- value universes --------------------------- *)

None == <<>>
Some(x) == <<x>>

\* std::net::IpAddr: the family and the host bits (host 0 is UNSPECIFIED).
IpAddr(family, host) == [family |-> family, host |-> host]
\* std::net::SocketAddr::new(ip, port)
SocketAddr(ip, port) == [ip |-> ip, port |-> port]
is_ipv4(ip) == ip.family = "v4"

V4a == IpAddr("v4", 1)
V6a == IpAddr("v6", 1)
V6b == IpAddr("v6", 2)

\* Addresses a DNS lookup may return, at startup or for a relay session.
Candidates == {V4a, V6a, V6b}
Addresses == {V4a, V6a}
Domains == {"a.com", "b.org"}

Modes == {"server", "proxy"}
Paths == {None, Some("file")}
Hostnames == {None, Some(<<"h">>), Some(<<"h", ".">>)}
RemoteAddrs == {"127.0.0.1:80", "[::1]:8080", "localhost"}
CacheTimes == (0..MaxCacheTime) \cup {InstantMax}
IdleTimeouts == {300}

\* Passwords are byte strings; the empty password is allowed.
Passwords == {<<>>, <<1>>}
RECURSIVE SeqsUpTo(_, _)
SeqsUpTo(S, n) ==
    IF n = 0 THEN {<<>>}
    ELSE LET shorter == SeqsUpTo(S, n - 1)
         IN shorter \cup {Append(s, x) : s \in {t \in shorter : Len(t) = n - 1}, x \in S}
\* clap: required = true, so at least one password is given.
PasswordLists == SeqsUpTo(Passwords, MaxPasswords) \ {<<>>}
Responses == SeqsUpTo(Candidates, MaxCandidates)

(* ------------------------------- state --------------------------------- *)

VARIABLES
    mode, cert, key, remote_addr, password, dns_cache_time, hostname,
    idle_timeout,
    dns_cache_duration, sha_pass, pass_len, back_addr, dns_cache, empty_addr,
    idle_duration,
    pc, fqdn, response, iter, now, last, setups, sess

conf == <<mode, cert, key, remote_addr, password, dns_cache_time, hostname,
          idle_timeout>>
derived == <<dns_cache_duration, sha_pass, pass_len, back_addr, empty_addr,
             idle_duration>>
\* Locals of a running setup: the normalised hostname, the lookup's answer and
\* the parity of the number of loop iterations made so far.
locals == <<fqdn, response, iter>>
\* setups counts the runs of setup that have returned.
\* sess[s] is where relay session s stands inside a call of query_dns or
\* update_dns that is followed statement by statement.
vars == <<conf, derived, dns_cache, pc, locals, now, last, setups, sess>>

(* --------------------------- library models ---------------------------- *)

\* Length of Sha224::result_str(): 28 bytes written as 56 hexadecimal digits.
DigestLen == 56

\* Sha224 state after input(bytes): the bytes are absorbed in order.
RECURSIVE Absorb(_, _)
Absorb(h, bytes) ==
    IF bytes = <<>> THEN h
    ELSE Absorb((h * 31 + Head(bytes) + 1) % 251, Tail(bytes))

\* encoder.reset(); encoder.input(pass.as_bytes()); encoder.result_str().
\* SHA-224 itself is not computed: it is modelled by a deterministic digest
\* of fixed width DigestLen over the hexadecimal digits 0..15 that has no
\* collision on Passwords (DigestCollisionFree).
Sha224Hex(bytes) ==
    LET h == Absorb(7, bytes)
    IN [i \in 1..DigestLen |->
            IF i % 2 = 1 THEN (h + (i \div 2) * ((h \div 16) + 1)) % 16
            ELSE ((h \div 16) + (i \div 2) * ((h % 16) + 1)) % 16]

\* str::parse::<SocketAddr>(): Ok(address) for "ip:port" literals, Err for
\* anything else (a host name, a missing port).
ParseSocketAddr(s) ==
    CASE s = "127.0.0.1:80" -> Some(SocketAddr(IpAddr("v4", 2130706433), 80))
      [] s = "[::1]:8080" -> Some(SocketAddr(IpAddr("v6", 1), 8080))
      [] OTHER -> None

\* str::ends_with(".")
ends_with_dot(s) == s # <<>> /\ s[Len(s)] = "."

\* Mutant of InstantAdd: the duration is left out of the sum.
InstantAdd_NoDuration(t, d) == IF t > InstantMax THEN None ELSE Some(t)

\* Instant + Duration: panics when the sum is not representable.
InstantAdd(t, d) == IF t + d > InstantMax THEN None ELSE Some(t + d)

\* Duration::new(secs, 0)
DurationNew(secs) == secs

\* HashMap<String, DnsEntry> as the set of its (key, value) pairs.
DnsEntry(address, expired_time) ==
    [address |-> address, expired_time |-> expired_time]
Slot(domain, entry) == [domain |-> domain, entry |-> entry]
HashMapGet(m, k) ==
    LET hits == {s \in m : s.domain = k}
    IN IF hits = {} THEN None ELSE Some((CHOOSE s \in hits : TRUE).entry)
\* Mutant of HashMapRemove: the whole map is cleared.
HashMapRemove_Clear(m, k) == {}
HashMapRemove(m, k) == {s \in m : s.domain # k}
\* Mutant of HashMapInsert: the pair is added beside the old one.
HashMapInsert_Keep(m, k, v) == m \cup {Slot(k, v)}
HashMapInsert(m, k, v) == {s \in m : s.domain # k} \cup {Slot(k, v)}

(* ------------------------------ helpers -------------------------------- *)

\* Mutant of DigestLoop: pass_len is the length of the password
\* (pass.len()), not of its digest.
RECURSIVE DigestLoop_PassLen(_, _, _)
DigestLoop_PassLen(passes, shas, len) ==
    IF passes = <<>> THEN <<shas, len>>
    ELSE DigestLoop_PassLen(Tail(passes),
                            Append(shas, Sha224Hex(Head(passes))),
                            Len(Head(passes)))

\* for pass in &self.password { ... self.pass_len = result.len();
\*                              self.sha_pass.push(result); }
\* The loop state is <<sha_pass, pass_len>>.
RECURSIVE DigestLoop(_, _, _)
DigestLoop(passes, shas, len) ==
    IF passes = <<>> THEN <<shas, len>>
    ELSE LET result == Sha224Hex(Head(passes))
         IN DigestLoop(Tail(passes), Append(shas, result), Len(result))

\* Mutant of digest_pass: the store is not cleared before the loop.
digest_pass_NoClear(passes, shas, len) == DigestLoop(passes, shas, len)

\* digest_pass: self.sha_pass.clear(), then the loop.
digest_pass(passes, shas, len) == DigestLoop(passes, <<>>, len)

\* Mutant of check_pass: the presented string is compared with digests
\* computed from the password list on demand, not with the stored ones.
check_pass_Plain(shas, passes, pass) ==
    IF \E i \in 1..Len(passes) : Sha224Hex(passes[i]) = pass
    THEN Some(passes[CHOOSE i \in 1..Len(passes) : Sha224Hex(passes[i]) = pass])
    ELSE None

\* Mutant of check_pass: a match returns the first password, not the i-th.
check_pass_First(shas, passes, pass) ==
    IF \E i \in 1..Len(shas) : shas[i] = pass THEN Some(passes[1]) ELSE None

\* check_pass: the first index whose stored digest equals pass.
RECURSIVE CheckFrom(_, _, _, _)
CheckFrom(i, shas, passes, pass) ==
    IF i > Len(shas) THEN None
    ELSE IF shas[i] = pass THEN Some(passes[i])
    ELSE CheckFrom(i + 1, shas, passes, pass)
check_pass(shas, passes, pass) == CheckFrom(1, shas, passes, pass)

\* Mutant of get_pass: the last stored string instead of the first.
get_pass_Last(shas) == IF shas = <<>> THEN None ELSE Some(shas[Len(shas)])

\* get_pass: self.sha_pass.get(0), an Option that the code unwraps.
get_pass(shas) == IF shas = <<>> THEN None ELSE Some(shas[1])

\* Mutant of EntryLive: an entry is still live at its expiry instant.
EntryLive_Inclusive(entry, t) == entry.expired_time >= t

\* entry.expired_time > Instant::now() (line 142).
EntryLive(entry, t) == entry.expired_time > t

\* Mutant of query_dns: an expired entry is masked, not removed.
query_dns_Masking(cache, domain, t) ==
    LET found == HashMapGet(cache, domain)
    IN IF found # None /\ found[1].expired_time > t
       THEN <<Some(found[1].address), cache>>
       ELSE <<None, cache>>

\* Mutant of query_dns: a hit extends the entry's life by a second.
query_dns_Refresh(cache, domain, t) ==
    LET found == HashMapGet(cache, domain)
    IN IF found # None
       THEN IF found[1].expired_time > t
            THEN <<Some(found[1].address),
                   HashMapInsert(cache, domain,
                       DnsEntry(found[1].address, found[1].expired_time + 1))>>
            ELSE <<None, HashMapRemove(cache, domain)>>
       ELSE <<None, cache>>

\* query_dns: <<returned Option<IpAddr>, dns_cache afterwards>>.
query_dns(cache, domain, t) ==
    LET found == HashMapGet(cache, domain)
    IN IF found # None
       THEN IF EntryLive(found[1], t)
            THEN <<Some(found[1].address), cache>>
            ELSE <<None, HashMapRemove(cache, domain)>>
       ELSE <<None, cache>>

\* Mutant of ServerPrereqMissing: only both missing is refused.
ServerPrereqMissing_Both(c, k) == c = None /\ k = None

\* The server-mode prerequisite test (line 63).
ServerPrereqMissing(c, k) == c = None \/ k = None

\* Mutant of BackendOf: the port of the configured default remote address.
BackendOf_Port80(ip) == SocketAddr(ip, 80)

\* The backend a resolved candidate gives (lines 80 and 83).
BackendOf(ip) == SocketAddr(ip, 443)

\* Mutant of EmptyAddrFor: the placeholder is always IPv4.
EmptyAddrFor_V4(addr) == SocketAddr(IpAddr("v4", 0), 0)

\* The placeholder address of setup (lines 92-96).
EmptyAddrFor(addr) ==
    IF is_ipv4(addr.ip) THEN SocketAddr(IpAddr("v4", 0), 0)
    ELSE SocketAddr(IpAddr("v6", 0), 0)

\* Digests a peer may present: digests of passwords, configured or not,
\* each also with one bit flipped, and a string of another length.
FlipBit(d) == [d EXCEPT ![1] = IF d[1] % 2 = 0 THEN d[1] + 1 ELSE d[1] - 1]
Presented ==
    {Sha224Hex(p) : p \in Passwords}
        \cup {FlipBit(Sha224Hex(p)) : p \in Passwords} \cup {<<>>}

\* The record of the most recent call on Opts: its arguments, the instant it
\* observed, what it returned, and whether the map held an entry for the
\* domain when it was called (what HashMap::get / insert returned).
Call(op, domain, address, pass, t, ret_addr, ret_pass, found) ==
    [op |-> op, domain |-> domain, address |-> address, pass |-> pass,
     now |-> t, ret_addr |-> ret_addr, ret_pass |-> ret_pass, found |-> found]
NoCall == Call("none", "", None, <<>>, 0, None, None, FALSE)

\* A relay session: the statement it is at and, inside a call, the domain
\* and the entry HashMap::get gave it or the entry it is about to insert;
\* what its last call returned and how that call ended.
Sessions == 1..MaxSessions
Session(at, domain, entry, ret, ended) ==
    [at |-> at, domain |-> domain, entry |-> entry, ret |-> ret,
     ended |-> ended]
IdleSession == Session("idle", "", None, None, "")

(* ------------------------------ actions -------------------------------- *)

\* Opts as clap leaves it: the parsed settings c, #[clap(skip)] fields at
\* their Default.
InitWith(c) ==
    /\ mode = c.mode
    /\ cert = c.cert
    /\ key = c.key
    /\ remote_addr = c.remote_addr
    /\ password = c.password
    /\ dns_cache_time = c.dns_cache_time
    /\ hostname = c.hostname
    /\ idle_timeout = c.idle_timeout
    /\ dns_cache_duration = 0
    /\ sha_pass = <<>>
    /\ pass_len = 0
    /\ back_addr = None
    /\ dns_cache = {}
    /\ empty_addr = None
    /\ idle_duration = 0
    /\ pc = "init"
    /\ fqdn = <<>>
    /\ response = <<>>
    /\ iter = 0
    /\ now = 0
    /\ last = NoCall
    /\ setups = 0
    /\ sess = [s \in Sessions |-> IdleSession]

Settings(modes, certs, keys, remotes, passwords, times, hostnames) ==
    [mode : modes, cert : certs, key : keys, remote_addr : remotes,
     password : passwords, dns_cache_time : times, hostname : hostnames,
     idle_timeout : IdleTimeouts]

\* panic!: the process ends.
Abort ==
    /\ pc' = "aborted"
    /\ UNCHANGED <<conf, derived, dns_cache, locals, now, last>>

\* setup, server branch (lines 62-67), invoked on an Opts in state from.
SetupServerFrom(from) ==
    /\ pc = from
    /\ mode = "server"
    /\ UNCHANGED <<setups, sess>>
    /\ IF ServerPrereqMissing(cert, key)
       THEN Abort
       ELSE IF ParseSocketAddr(remote_addr) = None
       THEN Abort
       ELSE /\ back_addr' = Some(ParseSocketAddr(remote_addr)[1])
            /\ pc' = "derive"
            /\ UNCHANGED <<conf, dns_cache_duration, sha_pass, pass_len,
                           empty_addr, idle_duration, dns_cache, locals, now,
                           last>>

\* setup, proxy branch up to the lookup (lines 68-77), invoked on an Opts in
\* state from. The lookup fails (unwrap panics) or returns a list of
\* candidates.
SetupProxyFrom(from) ==
    /\ pc = from
    /\ mode # "server"
    /\ UNCHANGED <<setups, sess>>
    /\ IF hostname = None
       THEN Abort
       ELSE \/ Abort
            \/ \E r \in Responses :
                 /\ fqdn' = IF ends_with_dot(hostname[1]) THEN hostname[1]
                            ELSE Append(hostname[1], ".")
                 /\ response' = r
                 /\ pc' = "resolve"
                 /\ UNCHANGED <<conf, derived, dns_cache, iter, now, last>>

\* setup is invoked once, on the Opts as constructed.
SetupServer == SetupServerFrom("init")
SetupProxy == SetupProxyFrom("init")

\* setup is a pub fn on &mut self: it can be invoked again on an Opts whose
\* setup has returned.
SetupServerAgain == setups < MaxSetups /\ SetupServerFrom("done")
SetupProxyAgain == setups < MaxSetups /\ SetupProxyFrom("done")

\* One evaluation of `while let Some(ip) = response.iter().next()` and of
\* the loop body (lines 78-85). response.iter() builds a new iterator on
\* every evaluation, so next() yields the first candidate every time.
SetupLoop ==
    /\ UNCHANGED <<setups, sess>>
    /\ pc = "resolve"
    /\ IF response = <<>>
       THEN /\ pc' = "resolved"
            /\ UNCHANGED <<back_addr, iter>>
       ELSE LET ip == Head(response)
            IN IF is_ipv4(ip)
               THEN /\ back_addr' = Some(BackendOf(ip))
                    /\ pc' = "resolved"
                    /\ UNCHANGED iter
               ELSE /\ back_addr' = IF back_addr = None
                                    THEN Some(BackendOf(ip))
                                    ELSE back_addr
                    /\ pc' = "resolve"
                    /\ iter' = 1 - iter
    /\ UNCHANGED <<conf, dns_cache_duration, sha_pass, pass_len, empty_addr,
                   idle_duration, dns_cache, fqdn, response, now, last>>

\* Mutant of SetupResolved: an unresolved host falls back to the
\* unspecified address instead of panicking.
SetupResolved_Fallback ==
    /\ UNCHANGED <<setups, sess>>
    /\ pc = "resolved"
    /\ back_addr' = IF back_addr = None
                    THEN Some(BackendOf(IpAddr("v4", 0)))
                    ELSE back_addr
    /\ pc' = "derive"
    /\ UNCHANGED <<conf, dns_cache_duration, sha_pass, pass_len, empty_addr,
                   idle_duration, dns_cache, locals, now, last>>

\* After the loop (lines 86-90).
SetupResolved ==
    /\ UNCHANGED <<setups, sess>>
    /\ pc = "resolved"
    /\ IF back_addr = None
       THEN Abort
       ELSE /\ pc' = "derive"
            /\ UNCHANGED <<conf, derived, dns_cache, locals, now, last>>

\* Placeholder address and durations (lines 92-99).
SetupDerive ==
    /\ UNCHANGED <<setups, sess>>
    /\ pc = "derive"
    /\ empty_addr' = Some(EmptyAddrFor(back_addr[1]))
    /\ dns_cache_duration' = DurationNew(dns_cache_time)
    /\ idle_duration' = DurationNew(idle_timeout)
    /\ pc' = "digest"
    /\ UNCHANGED <<conf, sha_pass, pass_len, back_addr, dns_cache, locals,
                   now, last>>

\* self.digest_pass() and the return of setup (lines 100-114); the locals of
\* setup go out of scope.
SetupDigest ==
    /\ pc = "digest"
    /\ setups' = setups + 1
    /\ UNCHANGED sess
    /\ LET r == digest_pass(password, sha_pass, pass_len)
       IN /\ sha_pass' = r[1]
          /\ pass_len' = r[2]
    /\ pc' = "done"
    /\ fqdn' = <<>>
    /\ response' = <<>>
    /\ iter' = 0
    /\ UNCHANGED <<conf, dns_cache_duration, back_addr, empty_addr,
                   idle_duration, dns_cache, now, last>>

\* check_pass(pass) (lines 116-123), callable on any Opts at rest, also on
\* one whose setup has panicked.
CheckPass ==
    /\ pc \in {"init", "done", "aborted"}
    /\ UNCHANGED <<setups, sess>>
    /\ \E pass \in Presented :
         last' = Call("check_pass", "", None, pass, now, None,
                      check_pass(sha_pass, password, pass), FALSE)
    /\ UNCHANGED <<conf, derived, dns_cache, pc, locals, now>>

\* Mutant of GetPass: the first digest is taken out of the store
\* (self.sha_pass.remove(0)) instead of borrowed.
GetPass_Take ==
    /\ pc \in {"init", "done", "aborted"}
    /\ UNCHANGED <<setups, sess>>
    /\ IF get_pass(sha_pass) = None
       THEN Abort
       ELSE /\ last' = Call("get_pass", "", None, <<>>, now, None,
                            get_pass(sha_pass), FALSE)
            /\ sha_pass' = Tail(sha_pass)
            /\ UNCHANGED <<conf, dns_cache_duration, pass_len, back_addr,
                           empty_addr, idle_duration, dns_cache, pc, locals,
                           now>>

\* get_pass() (lines 125-127): the unwrap panics on an empty store.
GetPass ==
    /\ pc \in {"init", "done", "aborted"}
    /\ UNCHANGED <<setups, sess>>
    /\ IF get_pass(sha_pass) = None
       THEN Abort
       ELSE /\ last' = Call("get_pass", "", None, <<>>, now, None,
                            get_pass(sha_pass), FALSE)
            /\ UNCHANGED <<conf, derived, dns_cache, pc, locals, now>>

\* update_dns(domain, address) (lines 129-137), called by relay sessions,
\* which start once setup has completed.
UpdateDns ==
    /\ UNCHANGED <<setups, sess>>
    /\ pc = "done"
    /\ \E domain \in Domains, address \in Addresses :
         LET expired_time == InstantAdd(now, dns_cache_duration)
         IN IF expired_time = None
            THEN Abort
            ELSE /\ dns_cache' = HashMapInsert(dns_cache, domain,
                                     DnsEntry(address, expired_time[1]))
                 /\ last' = Call("update_dns", domain, Some(address), <<>>,
                                 now, None, None,
                                 HashMapGet(dns_cache, domain) # None)
                 /\ UNCHANGED <<conf, derived, pc, locals, now>>

\* query_dns(domain) (lines 139-150), called by relay sessions.
QueryDns ==
    /\ UNCHANGED <<setups, sess>>
    /\ pc = "done"
    /\ \E domain \in Domains :
         LET r == query_dns(dns_cache, domain, now)
         IN /\ dns_cache' = r[2]
            /\ last' = Call("query_dns", domain, None, <<>>, now, r[1], None,
                            HashMapGet(dns_cache, domain) # None)
    /\ UNCHANGED <<conf, derived, pc, locals, now>>

\* The monotonic clock behind Instant::now() advances.
Tick ==
    /\ UNCHANGED <<setups, sess>>
    /\ now < MaxTime
    /\ now' = now + 1
    /\ UNCHANGED <<conf, derived, dns_cache, pc, locals, last>>

\* Mutant of MayEnter: the calls take &self (a cache with interior
\* mutability), so a session may enter while another is inside a call.
MayEnter_Shared(s) == TRUE

\* query_dns and update_dns take &mut self (lines 129 and 139): a session
\* enters a call only while no other session is inside one.
MayEnter(s) == \A o \in Sessions \ {s} : sess[o].at = "idle"

\* query_dns, line 140: self.dns_cache.get(domain); an absent domain
\* returns None at once.
QueryGet(s) ==
    /\ pc = "done"
    /\ sess[s].at = "idle"
    /\ MayEnter(s)
    /\ \E domain \in Domains :
         LET found == HashMapGet(dns_cache, domain)
         IN sess' = [sess EXCEPT ![s] =
                       IF found = None
                       THEN Session("idle", "", None, None, "miss")
                       ELSE Session("check", domain, found, None, "")]
    /\ UNCHANGED <<conf, derived, dns_cache, pc, locals, now, last, setups>>

\* query_dns, lines 142-145: the expiry test against Instant::now().
QueryCheck(s) ==
    /\ sess[s].at = "check"
    /\ sess' = [sess EXCEPT ![s] =
                  IF EntryLive(sess[s].entry[1], now)
                  THEN Session("idle", "", None,
                               Some(sess[s].entry[1].address), "hit")
                  ELSE [sess[s] EXCEPT !.at = "remove"]]
    /\ UNCHANGED <<conf, derived, dns_cache, pc, locals, now, last, setups>>

\* query_dns, lines 146-149: self.dns_cache.remove(domain), then None.
QueryRemove(s) ==
    /\ sess[s].at = "remove"
    /\ dns_cache' = HashMapRemove(dns_cache, sess[s].domain)
    /\ sess' = [sess EXCEPT ![s] =
                  Session("idle", "", None, None, "evicted")]
    /\ UNCHANGED <<conf, derived, pc, locals, now, last, setups>>

\* update_dns, line 131: the expiry, or the panic of Instant + Duration.
UpdateExpiry(s) ==
    /\ pc = "done"
    /\ sess[s].at = "idle"
    /\ MayEnter(s)
    /\ \E domain \in Domains, address \in Addresses :
         LET expired_time == InstantAdd(now, dns_cache_duration)
         IN IF expired_time = None
            THEN Abort /\ UNCHANGED <<setups, sess>>
            ELSE /\ sess' = [sess EXCEPT ![s] =
                               Session("insert", domain,
                                       Some(DnsEntry(address, expired_time[1])),
                                       None, "")]
                 /\ UNCHANGED <<conf, derived, dns_cache, pc, locals, now,
                                last, setups>>

\* update_dns, lines 132-136: self.dns_cache.insert(domain, entry).
UpdateInsert(s) ==
    /\ sess[s].at = "insert"
    /\ dns_cache' = HashMapInsert(dns_cache, sess[s].domain, sess[s].entry[1])
    /\ sess' = [sess EXCEPT ![s] =
                  Session("idle", "", None, None, "inserted")]
    /\ UNCHANGED <<conf, derived, pc, locals, now, last, setups>>

SessionStep ==
    \E s \in Sessions :
        QueryGet(s) \/ QueryCheck(s) \/ QueryRemove(s) \/ UpdateExpiry(s)
            \/ UpdateInsert(s)

SetupStep ==
    SetupServer \/ SetupProxy \/ SetupLoop \/ SetupResolved \/ SetupDerive
        \/ SetupDigest

(* --------------------------- specifications ---------------------------- *)

\* The whole program, for settings with which each mode can come up: every
\* cache TTL, one password list, key material and hostname present.
Init ==
    \E c \in Settings(Modes, {Some("file")}, {Some("file")}, {"127.0.0.1:80"},
                      {<< <<1>> >>}, CacheTimes, {Some(<<"h">>)}) :
        InitWith(c)

Next == SetupStep \/ CheckPass \/ GetPass \/ UpdateDns \/ QueryDns \/ Tick

Spec == Init /\ [][Next]_vars

\* setup alone, over every combination of mode, cert, key, remote address
\* and hostname. A started setup keeps running: weak fairness of its steps.
InitSetup ==
    \E c \in Settings(Modes, Paths, Paths, RemoteAddrs, {<< <<1>> >>},
                      {MaxCacheTime}, Hostnames) :
        InitWith(c)

SetupSpec == InitSetup /\ [][SetupStep]_vars /\ WF_vars(SetupStep)

\* setup and credential verification, over every password list.
InitPass ==
    \E c \in Settings(Modes, {Some("file")}, {Some("file")}, {"127.0.0.1:80"},
                      PasswordLists, {MaxCacheTime}, {Some(<<"h">>)}) :
        InitWith(c)

NextPass == SetupStep \/ CheckPass

PassSpec == InitPass /\ [][NextPass]_vars

\* setup invoked repeatedly, with credential verification, over every
\* password list.
SetupAgain == SetupServerAgain \/ SetupProxyAgain

NextReSetup == SetupStep \/ SetupAgain \/ CheckPass

ReSetupSpec == InitPass /\ [][NextReSetup]_vars

\* Every operation, over every password list.
CredSpec == InitPass /\ [][Next]_vars

(* ------------------------- DNS cache: C1 - C4 -------------------------- *)

\* The step is a call of op on domain d (a repeated call that changes
\* nothing is a stuttering step).
CallOf(op, d) == last' # last /\ last'.op = op /\ last'.domain = d

SlotsOf(cache, d) == {s \in cache : s.domain = d}

\* C1: query_dns(d) returns Some(address) only if, when it is called, the
\* cache holds an entry for d with that address and with an expiry strictly
\* later than the instant the call observes.
C1_QueryReturnsOnlyLive ==
    [][\A d \in Domains :
         (CallOf("query_dns", d) /\ last'.ret_addr # None) =>
            \E s \in SlotsOf(dns_cache, d) :
                /\ last'.ret_addr = Some(s.entry.address)
                /\ s.entry.expired_time > last'.now
                /\ last'.now = now]_vars

\* A query made after the clock has advanced hit a live entry while the
\* other domain's entry had already expired.
C1_Witness ==
    /\ last.op = "query_dns"
    /\ last.ret_addr # None
    /\ last.now >= 1
    /\ \E s \in dns_cache : s.domain # last.domain /\ s.entry.expired_time <= now

\* C2 as claimed: update_dns(d, X) followed immediately by query_dns(d), with
\* no clock advance, returns Some(X), whatever the configured cache TTL.
C2_UpdateThenQueryHits ==
    [][(/\ last.op = "update_dns"
        /\ CallOf("query_dns", last.domain)
        /\ last'.now = last.now) => last'.ret_addr = last.address]_vars

\* C2 amended: the same when the cache TTL is at least one second (an
\* update_dns that returned did not overflow the expiry).
C2_UpdateThenQueryHitsPositiveTtl ==
    [][(/\ last.op = "update_dns"
        /\ CallOf("query_dns", last.domain)
        /\ last'.now = last.now
        /\ dns_cache_duration >= 1) => last'.ret_addr = last.address]_vars

\* A query returned the address of an entry that update_dns had inserted at
\* the very instant the query observed, under a TTL of at least one second.
C2_Witness ==
    /\ last.op = "query_dns"
    /\ last.ret_addr # None
    /\ dns_cache_duration >= 1
    /\ \E s \in SlotsOf(dns_cache, last.domain) :
          s.entry.expired_time = last.now + dns_cache_duration

\* C3: a query_dns(d) that finds d absent, or present with now >= expiry,
\* returns None and leaves no entry for d; and an absent d gets an entry only
\* by update_dns(d, .). So once d's entry has expired under a query, every
\* later query_dns(d) returns None until d is updated.
C3_ExpiredIsEvicted ==
    [][\A d \in Domains :
         /\ (/\ CallOf("query_dns", d)
             /\ \A s \in SlotsOf(dns_cache, d) : now >= s.entry.expired_time)
               => (last'.ret_addr = None /\ SlotsOf(dns_cache', d) = {})
         /\ (SlotsOf(dns_cache, d) = {} /\ SlotsOf(dns_cache', d) # {})
               => CallOf("update_dns", d)]_vars

\* A query found an entry, returned None and the entry is gone.
C3_Witness ==
    /\ last.op = "query_dns"
    /\ last.found
    /\ last.ret_addr = None
    /\ SlotsOf(dns_cache, last.domain) = {}
    /\ dns_cache_duration >= 1

\* C4: the cache holds at most one entry per domain, and update_dns(d, X)
\* leaves exactly the entry (X, time of the call + TTL) for d, whatever was
\* there before.
C4_OneEntryPerDomain ==
    /\ [](\A d \in Domains : Cardinality(SlotsOf(dns_cache, d)) <= 1)
    /\ [][\A d \in Domains :
            CallOf("update_dns", d) =>
               SlotsOf(dns_cache', d) =
                 {Slot(d, DnsEntry(last'.address[1],
                                   now + dns_cache_duration))}]_vars

\* A second update_dns for a domain, later than the first and with another
\* address, has replaced the entry.
C4_Witness ==
    /\ last.op = "update_dns"
    /\ last.found
    /\ last.now >= 1
    /\ dns_cache_duration >= 1
    /\ SlotsOf(dns_cache, last.domain) =
         {Slot(last.domain, DnsEntry(last.address[1],
                                     last.now + dns_cache_duration))}

(* ----------------------------- setup: C5 - C9 -------------------------- *)

Completed == pc = "done"
Ended == pc \in {"done", "aborted"}

\* Answers holding one IPv4 and one IPv6 candidate, in either order.
MixedPairs ==
    {r \in Responses :
        Len(r) = 2 /\ Cardinality({i \in 1..2 : is_ipv4(r[i])}) = 1}
V4Of(r) == IF is_ipv4(r[1]) THEN r[1] ELSE r[2]
\* Non-empty answers holding IPv6 candidates only.
V6Only ==
    {r \in Responses : r # <<>> /\ \A i \in 1..Len(r) : ~is_ipv4(r[i])}

\* C5: proxy-mode setup whose lookup yields one IPv4 and one IPv6 candidate
\* ends with back_addr the IPv4 candidate, port 443, in both orders.
C5_MixedAnswerEndsWithV4 ==
    \A r \in MixedPairs :
        (pc = "resolve" /\ response = r)
           ~> (Completed /\ back_addr = Some(SocketAddr(V4Of(r), 443)))

\* C6: proxy-mode setup whose lookup yields IPv6 candidates only ends with
\* back_addr the first candidate.
C6_V6OnlyEndsWithFirst ==
    \A r \in V6Only :
        (pc = "resolve" /\ response = r)
           ~> (Completed /\ back_addr = Some(SocketAddr(Head(r), 443)))

\* C7: setup always terminates: it completes or it aborts.
C7_SetupTerminates == <>Ended

ServerReady ==
    /\ mode = "server"
    /\ cert # None
    /\ key # None
    /\ ParseSocketAddr(remote_addr) # None
ServerUnready == mode = "server" /\ (cert = None \/ key = None)

\* C8: server-mode setup with cert, key and a parseable remote_addr
\* completes, without a lookup, with back_addr the parsed remote_addr; with
\* cert or key absent it aborts and back_addr, empty_addr and the digests
\* stay unpopulated.
C8_ServerSetup ==
    /\ []((mode = "server" /\ Completed) =>
             (ServerReady /\ back_addr = ParseSocketAddr(remote_addr)))
    /\ [](mode = "server" => (pc \notin {"resolve", "resolved"}
                              /\ response = <<>>))
    /\ [](ServerUnready =>
             (/\ pc \in {"init", "aborted"}
              /\ back_addr = None
              /\ empty_addr = None
              /\ sha_pass = <<>>))
    /\ (ServerReady ~> Completed)
    /\ (ServerUnready ~> pc = "aborted")

\* Server-mode setup has completed on the IPv6 literal.
C8_Witness ==
    /\ mode = "server"
    /\ Completed
    /\ back_addr = Some(SocketAddr(IpAddr("v6", 1), 8080))

\* C9: once setup has completed, empty_addr is the unspecified address with
\* port 0 of back_addr's family.
C9_EmptyAddrMatchesFamily ==
    Completed =>
        /\ back_addr # None
        /\ empty_addr # None
        /\ empty_addr[1].port = 0
        /\ empty_addr[1].ip.host = 0
        /\ empty_addr[1].ip.family = back_addr[1].ip.family
        /\ empty_addr[1].ip.family \in {"v4", "v6"}

\* Setup has completed on an IPv6 backend.
C9_Witness == Completed /\ back_addr # None /\ ~is_ipv4(back_addr[1].ip)

(* --------------------------- credentials: C10 -------------------------- *)

\* C10: after setup, check_pass(digest(p)) is Some(p) for every configured
\* p, and check_pass is None on every presented string that is the digest
\* of no configured password.
C10_CheckPass ==
    Completed =>
        /\ \A i \in 1..Len(password) :
              check_pass(sha_pass, password, Sha224Hex(password[i]))
                 = Some(password[i])
        /\ \A c \in Presented :
              (\A i \in 1..Len(password) : c # Sha224Hex(password[i]))
                 => check_pass(sha_pass, password, c) = None

\* check_pass has returned the second of two different passwords.
C10_Witness ==
    /\ Completed
    /\ Len(password) = 2
    /\ password[1] # password[2]
    /\ last.op = "check_pass"
    /\ last.pass = Sha224Hex(password[2])
    /\ last.ret_pass = Some(password[2])

(* ------------------------- frame of the calls: C12 --------------------- *)

\* C12: once setup has completed, no call changes back_addr, empty_addr,
\* the passwords, the digests, pass_len or the two durations; dns_cache
\* changes only in a step that is a call of query_dns or update_dns.
C12_OnlyDnsCacheChanges ==
    [][Completed =>
         /\ derived' = derived
         /\ password' = password
         /\ (dns_cache' # dns_cache =>
               (last' # last /\ last'.op \in {"query_dns", "update_dns"}))]_vars

\* get_pass has returned after DNS entries were cached.
C12_Witness ==
    /\ Completed
    /\ last.op = "get_pass"
    /\ last.ret_pass = Some(sha_pass[1])
    /\ dns_cache # {}

(* ------------------ concurrent relay sessions: C11 --------------------- *)

\* The relay sessions' calls followed statement by statement, on an Opts
\* brought up by setup.
NextSessions == SetupStep \/ SessionStep \/ Tick

SessionSpec == Init /\ [][NextSessions]_vars

InCall(s) == sess[s].at # "idle"

\* C11: the calls of concurrent sessions take effect one at a time: at most
\* one session is inside a call, the map changes only in the last statement
\* of the call that is running, and the entry a query_dns removes is the
\* entry it found expired (never one inserted after its expiry test).
C11_CallsAreAtomic ==
    /\ [](\A s, o \in Sessions : (InCall(s) /\ InCall(o)) => s = o)
    /\ [][\A s \in Sessions :
            /\ (InCall(s) /\ dns_cache' # dns_cache) => ~InCall(s)'
            /\ (sess[s].at = "remove" /\ sess'[s].at = "idle") =>
                   /\ HashMapGet(dns_cache, sess[s].domain) = sess[s].entry
                   /\ ~EntryLive(sess[s].entry[1], now)]_vars

\* One session's query_dns has found expired, and is about to remove, the
\* entry that another session's update_dns inserted.
C11_Witness ==
    \E s, o \in Sessions :
        /\ s # o
        /\ sess[s].at = "remove"
        /\ sess[o].ended = "inserted"
        /\ HashMapGet(dns_cache, sess[s].domain) = sess[s].entry
        /\ Cardinality(dns_cache) = 1
        /\ dns_cache_duration >= 1

(* ---------------------- proxy-mode failures: C13 ----------------------- *)

ProxyNoHost == mode # "server" /\ hostname = None
\* The lookup of a running or aborted setup returned no candidate.
ZeroCandidates == mode # "server" /\ fqdn # <<>> /\ response = <<>>
Unpopulated == back_addr = None /\ empty_addr = None /\ sha_pass = <<>>

\* C13: proxy-mode setup without a hostname, or whose lookup returns no
\* candidate, aborts: it never completes, populates nothing, and the lookup
\* is not made again.
C13_ProxyFailuresAreFatal ==
    /\ [](ProxyNoHost => (pc \in {"init", "aborted"} /\ Unpopulated
                          /\ fqdn = <<>>))
    /\ [](ZeroCandidates => (pc \in {"resolve", "resolved", "aborted"}
                             /\ Unpopulated))
    /\ [][(ZeroCandidates => ZeroCandidates')
          /\ (pc = "aborted" => pc' = "aborted")]_vars
    /\ (ProxyNoHost ~> pc = "aborted")
    /\ (ZeroCandidates ~> pc = "aborted")

\* A proxy-mode setup has aborted on an empty answer.
C13_Witness == ZeroCandidates /\ pc = "aborted"

(* ------------------------- digest store: C14 -------------------------- *)

\* C14: after setup every stored digest has the same encoded length, and
\* pass_len is that length.
C14_DigestsHaveOneLength ==
    Completed =>
        /\ sha_pass # <<>>
        /\ \A i, j \in 1..Len(sha_pass) : Len(sha_pass[i]) = Len(sha_pass[j])
        /\ \A i \in 1..Len(sha_pass) : pass_len = Len(sha_pass[i])

\* Setup has completed on the empty password followed by a non-empty one.
C14_Witness ==
    /\ Completed
    /\ Len(password) = 2
    /\ password[1] = <<>>
    /\ password[2] # <<>>
    /\ Len(sha_pass) = 2

(* ------------------- lazy eviction and expiry: C15, C16 ---------------- *)

\* C15: the entry of a domain d changes only when update_dns(d, .) replaces
\* it or when a query_dns(d) that observes it expired removes it; time, a
\* hit, a miss and calls on other domains leave it as it is.
C15_EntryChangesOnlyOnAccess ==
    [][\A d \in Domains :
         (SlotsOf(dns_cache', d) # SlotsOf(dns_cache, d)) =>
            \/ CallOf("update_dns", d)
            \/ /\ CallOf("query_dns", d)
               /\ last'.ret_addr = None
               /\ SlotsOf(dns_cache', d) = {}
               /\ \E s \in SlotsOf(dns_cache, d) :
                      s.entry.expired_time <= now]_vars

\* An expired entry is still in the map after an expired entry of the other
\* domain was evicted by a query.
C15_Witness ==
    /\ last.op = "query_dns"
    /\ last.found
    /\ last.ret_addr = None
    /\ dns_cache_duration >= 1
    /\ \E s \in dns_cache :
          s.domain # last.domain /\ s.entry.expired_time <= last.now

\* C16: every entry's expiry is the instant of the update_dns that inserted
\* it plus the cache TTL: update_dns writes now + TTL, a hit leaves the map
\* as it is, so no expiry is later than now + TTL and none is earlier than
\* the TTL itself.
C16_ExpiryIsInsertionPlusTtl ==
    /\ [](\A s \in dns_cache :
            /\ s.entry.expired_time <= now + dns_cache_duration
            /\ s.entry.expired_time >= dns_cache_duration)
    /\ [][\A d \in Domains :
            /\ CallOf("update_dns", d) =>
                  \A s \in SlotsOf(dns_cache', d) :
                      s.entry.expired_time = last'.now + dns_cache_duration
            /\ (CallOf("query_dns", d) /\ last'.ret_addr # None) =>
                  /\ dns_cache' = dns_cache
                  /\ \A s \in SlotsOf(dns_cache, d) :
                         last'.now < s.entry.expired_time]_vars

\* An entry inserted earlier has been hit by a query and keeps the expiry
\* it was inserted with, which is now nearer than a full TTL.
C16_Witness ==
    /\ last.op = "query_dns"
    /\ last.ret_addr # None
    /\ \E s \in SlotsOf(dns_cache, last.domain) :
          /\ s.entry.expired_time < last.now + dns_cache_duration
          /\ s.entry.expired_time > last.now

(* ------------------------ proxy backend: C17 --------------------------- *)

\* C17: in proxy mode back_addr is written only by the candidate loop, and
\* only with a candidate of the lookup's answer paired with port 443; so when
\* proxy-mode setup completes back_addr has port 443 and the IP of a
\* candidate, and is not the configured remote_addr, whatever its port.
C17_ProxyBackendIsCandidateAt443 ==
    /\ [][(mode = "proxy" /\ back_addr' # back_addr) =>
             /\ pc = "resolve"
             /\ \E i \in 1..Len(response) :
                    back_addr' = Some(SocketAddr(response[i], 443))]_vars
    /\ []((Completed /\ mode = "proxy") =>
             /\ back_addr # None
             /\ back_addr[1].port = 443
             /\ back_addr[1].ip \in Candidates
             /\ back_addr # ParseSocketAddr(remote_addr))

\* Proxy-mode setup has completed under a remote_addr that parses as a
\* socket address with another port.
C17_Witness ==
    /\ Completed
    /\ mode = "proxy"
    /\ ParseSocketAddr(remote_addr) # None
    /\ ParseSocketAddr(remote_addr)[1].port # 443
    /\ back_addr # None
    /\ back_addr[1].port = 443

(* ------------------------ digest store: C18 ---------------------------- *)

\* C18: once digest_pass has run, however many times setup was invoked, the
\* digest store has the length of the password list and its i-th element is
\* the digest of the i-th password.
C18_StoreMirrorsPasswords ==
    setups >= 1 =>
        /\ Len(sha_pass) = Len(password)
        /\ \A i \in 1..Len(password) : sha_pass[i] = Sha224Hex(password[i])

\* setup has completed twice on a list of two different passwords.
C18_Witness ==
    /\ Completed
    /\ setups = MaxSetups
    /\ setups >= 2
    /\ Len(password) = 2
    /\ password[1] # password[2]
    /\ Len(sha_pass) = 2

(* ------------------------ outbound password: C19 ---------------------- *)

\* C19: once setup has completed, get_pass returns the stored credential of
\* the first configured password (its digest), however many passwords are
\* configured and whatever check_pass, query_dns and update_dns calls were
\* made since.
C19_GetPassIsFirst ==
    Completed =>
        /\ get_pass(sha_pass) = Some(Sha224Hex(password[1]))
        /\ last.op = "get_pass" => last.ret_pass = Some(Sha224Hex(password[1]))

\* get_pass has returned on a list of two different passwords, after an
\* update_dns left an entry in the cache.
C19_Witness ==
    /\ Completed
    /\ last.op = "get_pass"
    /\ Len(password) = 2
    /\ password[1] # password[2]
    /\ last.ret_pass = Some(sha_pass[1])
    /\ dns_cache # {}

(* ---------------------- unpopulated store: C20 ------------------------- *)

\* C20: until a setup has completed, also after a setup that panicked,
\* check_pass returns None on every presented string, the digests of the
\* configured passwords included.
C20_NothingVerifiesBeforeSetup ==
    setups = 0 =>
        /\ \A c \in Presented : check_pass(sha_pass, password, c) = None
        /\ \A i \in 1..Len(password) :
              check_pass(sha_pass, password, Sha224Hex(password[i])) = None
        /\ last.op = "check_pass" => last.ret_pass = None

\* After a setup that panicked, check_pass was given the digest of a
\* configured password and returned None.
C20_Witness ==
    /\ pc = "aborted"
    /\ setups = 0
    /\ last.op = "check_pass"
    /\ last.pass = Sha224Hex(password[1])
    /\ last.ret_pass = None

====
